---- MODULE Spec2Model ----
(***************************************************************************)
(* PopulationRateMonitor (brian2/monitors/ratemonitor.py): a scheduled     *)
(* recorder that, once per tick of its clock, appends the population       *)
(* firing rate and the clock time to two growable arrays.                  *)
(*                                                                         *)
(* Python objects are modelled by reference: `heap` maps the identity of   *)
(* every live dynamic array to its contents, and the monitor's attributes  *)
(* (self._rate, self._t) and the entries of self.variables hold            *)
(* identities, so that rebinding an attribute and writing through a        *)
(* reference are different things, as they are in Python.                  *)
(* Recorded numbers are exact rationals <<numerator, denominator>>.        *)
(***************************************************************************)
EXTENDS Integers, Sequences, FiniteSets, TLC

\* ---- bounds of the model
MaxUnits == 2     \* the source has 0..MaxUnits units
MaxTicks == 2     \* ticks the driver starts in one behaviour
MaxSnaps == 1     \* accessor results a caller holds on to at one time

None == "None"
\* the step sizes a clock takes, in multiples of a base step
StepSizes == {1, 2}
Clocks == {"defaultclock", "clock2"}
\* the step size every clock starts with: clock2 steps twice as wide as the
\* default clock (the source's)
InitialDt == [c \in Clocks |-> IF c = "defaultclock" THEN 1 ELSE 2]
\* the schedule slots of one time step, in the order the driver runs them
Slots == <<"start", "groups", "thresholds", "synapses", "resets", "end">>
\* slots a caller passes in `when` (any slot but the source's own)
UserSlots == {"start", "end"}
ArrayIds == 1 .. (4 + MaxSnaps)

VARIABLES
  source,   \* the spike source: unit count, clock, name, spike space, alive?
  clocks,   \* every clock's t and dt
  mon,      \* the PopulationRateMonitor object
  heap,     \* identity -> contents of every live dynamic array / ndarray
  snaps,    \* accessor results the caller still holds
  net,      \* the driver: running?, slot reached in the current tick, tick number
  hist,     \* what happened (ticks, fired sets, samples): read by the properties only
  last      \* the operation that produced this state

vars == <<source, clocks, mon, heap, snaps, net, hist, last>>

\* ---- exact numbers
RECURSIVE GCD(_, _)
GCD(a, b) == IF b = 0 THEN a ELSE GCD(b, a % b)

\* the number n/d (d > 0, n >= 0) in lowest terms
Num(n, d) == LET g == GCD(n, d) IN <<n \div g, d \div g>>

Min(S) == CHOOSE x \in S : \A y \in S : x <= y

\* ---- the heap
FreshId(h) == Min(ArrayIds \ DOMAIN h)

\* identities a live object still refers to
Reachable(m, sn) ==
  {m._rate, m._t, m.variables._rate, m.variables._t} \cup {s.arr : s \in sn}

\* reference counting: arrays nothing refers to are released
Collect(h, m, sn) == [i \in (DOMAIN h) \cap Reachable(m, sn) |-> h[i]]

\* ---- Scheduler(when): the clock and slot the caller defined, if any
Scheduler(when) ==
  [clock |-> when.clock, when |-> when.when,
   defined_clock |-> when.clock # None, defined_when |-> when.when # None]

\* ---- __init__, lines 40-45: the defaults of the schedule
default_clock(src) == src.clock

default_when_start == "start"

default_when == "end"

\* (a constructor that ignores the clock of the schedule it is given)
resolve_schedule_source_clock(src, when) ==
  LET s == Scheduler(when)
  IN [clock |-> default_clock(src),
      when  |-> IF ~s.defined_when THEN default_when ELSE s.when]

resolve_schedule(src, when) ==
  LET s == Scheduler(when)
  IN [clock |-> IF ~s.defined_clock THEN default_clock(src) ELSE s.clock,
      when  |-> IF ~s.defined_when THEN default_when ELSE s.when]

\* ---- __init__, lines 53-64: the variables handed to the code object
\* t and dt are AttributeVariables: a reference to the clock and an attribute
\* name, never a value; dt is declared constant (it cannot change during a run)
t_variable_constant(clock) == [obj |-> clock, attribute |-> "t_", constant |-> TRUE]

t_variable(clock) == [obj |-> clock, attribute |-> "t_", constant |-> FALSE]

dt_variable_live(clock) == [obj |-> clock, attribute |-> "dt_", constant |-> FALSE]

dt_variable(clock) == [obj |-> clock, attribute |-> "dt_", constant |-> TRUE]

\* len(self.source), evaluated once, in __init__
num_source_neurons_one(src) == 1

num_source_neurons(src) == src.n

make_variables(clock, src, rate_ref, t_ref) ==
  [t     |-> t_variable(clock),
   dt    |-> dt_variable(clock),
   _spikespace |-> "source",
   _rate |-> rate_ref,
   _t    |-> t_ref,
   _num_source_neurons |-> num_source_neurons(src)]

\* ---- reinit, lines 66-74: two NEW empty arrays are bound to self._rate and
\* self._t; whatever else referred to the old arrays still does, and an old
\* array nothing else refers to is released
\* (a reinit that forgets self._t once it exists)
reinit_rate_only(m, h, sn) ==
  LET kept == Collect(h, [m EXCEPT !._rate = 0], sn)
      r  == FreshId(kept)
      h1 == kept @@ (r :> <<>>)
      t1 == IF m._t = 0 THEN FreshId(h1) ELSE m._t
  IN [mon |-> [m EXCEPT !._rate = r, !._t = t1],
      heap |-> IF m._t = 0 THEN h1 @@ (t1 :> <<>>) ELSE h1]

\* (a reinit that creates the arrays with one zero-filled element)
reinit_size_one(m, h, sn) ==
  LET kept == Collect(h, [m EXCEPT !._rate = 0, !._t = 0], sn)
      r  == FreshId(kept)
      h1 == kept @@ (r :> <<Num(0, 1)>>)
      t1 == FreshId(h1)
  IN [mon |-> [m EXCEPT !._rate = r, !._t = t1],
      heap |-> h1 @@ (t1 :> <<Num(0, 1)>>)]

\* (a reinit that also asks the source for its unit count again)
reinit_requery(m, h, sn) ==
  LET kept == Collect(h, [m EXCEPT !._rate = 0, !._t = 0], sn)
      r  == FreshId(kept)
      h1 == kept @@ (r :> <<>>)
      t1 == FreshId(h1)
  IN [mon |-> [m EXCEPT !._rate = r, !._t = t1,
                        !.variables._num_source_neurons = source.n],
      heap |-> h1 @@ (t1 :> <<>>)]

reinit_obj(m, h, sn) ==
  LET kept == Collect(h, [m EXCEPT !._rate = 0, !._t = 0], sn)
      r  == FreshId(kept)
      h1 == kept @@ (r :> <<>>)
      t1 == FreshId(h1)
  IN [mon |-> [m EXCEPT !._rate = r, !._t = t1], heap |-> h1 @@ (t1 :> <<>>)]

\* ---- __init__, line 38: self.source is a weak proxy of the source: it does
\* not count as a reference that keeps the source alive
\* (a plain reference, self.source = source)
strong_ref(obj) == [target |-> obj, weak |-> FALSE]

weakref_proxy(obj) == [target |-> obj, weak |-> TRUE]

\* ---- the monitor before __init__ has run
NoMonitor ==
  [constructed |-> FALSE, name |-> None, source |-> weakref_proxy(None),
   clock |-> None,
   when |-> None, _rate |-> 0, _t |-> 0,
   variables |-> [t |-> t_variable(None), dt |-> dt_variable(None),
                  _spikespace |-> None, _rate |-> 0, _t |-> 0,
                  _num_source_neurons |-> 0],
   updaters |-> <<>>]

NoWhen == [clock |-> None, when |-> None]
\* what an operation gave back: a value, or the exception it raised
NoResult == [raised |-> None, value |-> <<>>]
Op(name) == [op |-> name, when |-> NoWhen, ret |-> NoResult]

\* ---- the accessors, lines 88-114: a copy of the data of the array that
\* self._rate / self._t refers to NOW, tagged with a unit or bare
data_copy(h, ref) == h[ref]

Quantity(data, dim) == [data |-> data, dim |-> dim]

\* (a rate_ that reads the other array)
rate__of_t == data_copy(heap, mon._t)

rate  == Quantity(data_copy(heap, mon._rate), "hertz")
rate_ == data_copy(heap, mon._rate)
t     == Quantity(data_copy(heap, mon._t), "second")
t_    == data_copy(heap, mon._t)

Init ==
  /\ source \in {[n |-> n, clock |-> "defaultclock", name |-> "neurongroup",
                  spikespace |-> {}, alive |-> TRUE] : n \in 0 .. MaxUnits}
  /\ clocks = [c \in Clocks |-> [t |-> 0, dt |-> InitialDt[c]]]
  /\ mon = NoMonitor
  /\ heap = <<>>
  /\ snaps = {}
  /\ net = [running |-> FALSE, slot |-> 0, tick |-> 0]
  /\ hist = [n0 |-> 0, run_dt |-> 0, fired |-> <<>>, samples |-> <<>>,
             since_reinit |-> 0]
  /\ last = Op("init")

\* ---- PopulationRateMonitor.__init__(source, when, name), lines 36-64
Construct(when, name) ==
  /\ ~mon.constructed
  /\ source.alive
  /\ LET sched == resolve_schedule(source, when)
         m1 == [NoMonitor EXCEPT !.constructed = TRUE, !.name = name,
                                 !.source = weakref_proxy("source"),
                                 !.clock = sched.clock, !.when = sched.when]
         res == reinit_obj(m1, heap, snaps)
         m2 == [res.mon EXCEPT !.variables =
                   make_variables(res.mon.clock, source, res.mon._rate, res.mon._t)]
     IN /\ mon' = m2
        /\ heap' = Collect(res.heap, m2, snaps)
  /\ hist' = [hist EXCEPT !.n0 = source.n]
  /\ last' = [op |-> "construct", when |-> when, ret |-> NoResult]
  /\ UNCHANGED <<source, clocks, snaps, net>>

\* ---- PopulationRateMonitor.reinit(), lines 66-74, called by the user
\* between two runs or, from an operation of the network, between two ticks
reinit ==
  /\ mon.constructed
  /\ net.slot = 0
  /\ LET res == reinit_obj(mon, heap, snaps)
     IN /\ mon' = res.mon
        /\ heap' = Collect(res.heap, res.mon, snaps)
  /\ hist' = [hist EXCEPT !.since_reinit = 0]
  /\ last' = Op("reinit")
  /\ UNCHANGED <<source, clocks, snaps, net>>

\* ---- the code object the device builds from self.variables: the values of
\* the variables declared constant are read once, when it is built; the
\* others are read again at every execution; arrays are held by reference
code_object(m, cl) ==
  [t  |-> IF m.variables.t.constant THEN cl[m.variables.t.obj].t ELSE 0,
   dt |-> IF m.variables.dt.constant THEN cl[m.variables.dt.obj].dt ELSE 0]

\* (self.updaters.append(updater): one more updater with every run)
set_updaters_append(old, u) == Append(old, u)

\* line 86: self.updaters[:] = [updater]
set_updaters(old, u) == <<u>>

\* (a before_run that starts every run with new, empty series)
before_run_clearing ==
  /\ mon.constructed
  /\ source.alive
  /\ ~net.running
  /\ net.tick < MaxTicks
  /\ LET res == reinit_obj(mon, heap, snaps)
         m1 == [res.mon EXCEPT !.variables._rate = res.mon._rate,
                               !.variables._t = res.mon._t]
     IN /\ mon' = [m1 EXCEPT !.updaters = <<code_object(mon, clocks)>>]
        /\ heap' = Collect(res.heap, m1, snaps)
  /\ net' = [net EXCEPT !.running = TRUE, !.slot = 0]
  /\ hist' = [hist EXCEPT !.run_dt = clocks[mon.clock].dt]
  /\ last' = Op("before_run")
  /\ UNCHANGED <<source, clocks, snaps>>

\* ---- PopulationRateMonitor.before_run(namespace), lines 76-86, called by
\* the driver when a run starts (a run needs the source)
before_run ==
  /\ mon.constructed
  /\ source.alive
  /\ ~net.running
  /\ net.tick < MaxTicks
  /\ mon' = [mon EXCEPT !.updaters = set_updaters(@, code_object(mon, clocks))]
  /\ net' = [net EXCEPT !.running = TRUE, !.slot = 0]
  /\ hist' = [hist EXCEPT !.run_dt = clocks[mon.clock].dt]
  /\ last' = Op("before_run")
  /\ UNCHANGED <<source, clocks, heap, snaps>>

\* ---- the per-tick operation (template 'ratemonitor'): count the fired
\* units, divide by dt * N, append the rate and the time
value_t(u)  == IF mon.variables.t.constant THEN u.t
               ELSE clocks[mon.variables.t.obj].t
value_dt(u) == IF mon.variables.dt.constant THEN u.dt
               ELSE clocks[mon.variables.dt.obj].dt

rate_update(h, u) ==
  LET k == Cardinality(source.spikespace)
      N == mon.variables._num_source_neurons
  IN [h EXCEPT ![mon.variables._rate] = Append(@, Num(k, value_dt(u) * N)),
               ![mon.variables._t]    = Append(@, Num(value_t(u), 1))]

RECURSIVE run_updaters(_, _)
run_updaters(h, us) ==
  IF us = <<>> THEN h ELSE run_updaters(rate_update(h, Head(us)), Tail(us))

\* ---- the driver: in one tick it runs the scheduled objects in the order of
\* their slots (the source's threshold in 'thresholds', the monitor in its
\* own slot), then advances the clocks. net.slot is the slot last run (0:
\* none yet in this tick).
SlotIndex(w) == CHOOSE i \in 1 .. Len(Slots) : Slots[i] = w
Occupied == {SlotIndex("thresholds"), SlotIndex(mon.when)}
Later == {i \in Occupied : i > net.slot}
InTick == net.running /\ (net.slot > 0 \/ net.tick < MaxTicks)
Due(w) == InTick /\ Later # {} /\ Min(Later) = SlotIndex(w)
Advance(w) == [net EXCEPT !.slot = SlotIndex(w),
                          !.tick = IF net.slot = 0 THEN @ + 1 ELSE @]
ThisTick == IF net.slot = 0 THEN net.tick + 1 ELSE net.tick

\* the source finalizes the set of units that fired in this tick
SourceThreshold(fired) ==
  /\ Due("thresholds")
  /\ source' = [source EXCEPT !.spikespace = fired]
  /\ net' = Advance("thresholds")
  /\ hist' = [hist EXCEPT !.fired = Append(@, [tick |-> ThisTick, fired |-> fired])]
  /\ last' = Op("threshold")
  /\ UNCHANGED <<clocks, mon, heap, snaps>>

\* the monitor's updaters run in the monitor's slot
MonitorUpdate ==
  /\ Due(mon.when)
  /\ mon.variables._num_source_neurons # 0
  /\ heap' = run_updaters(heap, mon.updaters)
  /\ net' = Advance(mon.when)
  /\ hist' = [hist EXCEPT !.samples = Append(@,
                [tick |-> ThisTick, k |-> Cardinality(source.spikespace),
                 dt_tick |-> clocks[mon.clock].dt, dt_run |-> hist.run_dt,
                 t |-> clocks[mon.clock].t, n0 |-> hist.n0]),
                          !.since_reinit = @ + 1]
  /\ last' = Op("update")
  /\ UNCHANGED <<source, clocks, mon, snaps>>

\* (a failure between the two writes: the time is appended, the rate is not)
MonitorUpdateFailsHalfway ==
  /\ Due(mon.when)
  /\ heap' = [heap EXCEPT ![mon.variables._t] =
                Append(@, Num(clocks[mon.clock].t, 1))]
  /\ net' = [Advance(mon.when) EXCEPT !.running = FALSE, !.slot = 0]
  /\ last' = Op("update_failed")
  /\ UNCHANGED <<source, clocks, mon, snaps, hist>>

\* the operation fails (always when it divides by N = 0): nothing is written,
\* the error goes to the driver, which ends the run
MonitorUpdateFails ==
  /\ Due(mon.when)
  /\ net' = [Advance(mon.when) EXCEPT !.running = FALSE, !.slot = 0]
  /\ last' = Op("update_failed")
  /\ UNCHANGED <<source, clocks, mon, heap, snaps, hist>>

\* the end of the tick: every clock advances by its step size
ClockTick ==
  /\ net.running /\ net.slot > 0 /\ Later = {}
  /\ clocks' = [c \in Clocks |-> [clocks[c] EXCEPT !.t = @ + clocks[c].dt]]
  /\ net' = [net EXCEPT !.slot = 0]
  /\ last' = Op("tick")
  /\ UNCHANGED <<source, mon, heap, snaps, hist>>

\* the run ends between two ticks
EndRun ==
  /\ net.running /\ net.slot = 0
  /\ net' = [net EXCEPT !.running = FALSE]
  /\ last' = Op("end_run")
  /\ UNCHANGED <<source, clocks, mon, heap, snaps, hist>>

\* ---- the environment: between two ticks the step size of the monitor's
\* clock changes (once in a behaviour); between two runs the source changes
\* its number of units by one (once after the monitor was built)
SetDt(c, d) ==
  /\ net.slot = 0
  /\ c = mon.clock
  /\ clocks[c].dt = InitialDt[c] /\ d # InitialDt[c]
  /\ clocks' = [clocks EXCEPT ![c].dt = d]
  /\ last' = Op("set_dt")
  /\ UNCHANGED <<source, mon, heap, snaps, net, hist>>

SourceResize(n) ==
  /\ ~net.running
  /\ mon.constructed
  /\ source.n = hist.n0 /\ n \in {source.n - 1, source.n + 1}
  /\ source' = [source EXCEPT !.n = n, !.spikespace = @ \cap (1 .. n)]
  /\ last' = Op("resize")
  /\ UNCHANGED <<clocks, mon, heap, snaps, net, hist>>

Whens == {[clock |-> c, when |-> w] : c \in Clocks \cup {None}, w \in UserSlots \cup {None}}
Names == {"ratemonitor"}

Next ==
  \/ \E w \in Whens, nm \in Names : Construct(w, nm)
  \/ reinit
  \/ before_run
  \/ \E k \in 0 .. source.n : SourceThreshold(1 .. k)
  \/ MonitorUpdate
  \/ MonitorUpdateFails
  \/ ClockTick
  \/ EndRun
  \/ \E c \in Clocks, d \in StepSizes : SetDt(c, d)
  \/ \E n \in 0 .. MaxUnits : SourceResize(n)

Spec == Init /\ [][Next]_vars

\* ---- the accessors as operations: the caller keeps what they return
\* .data.copy(): the result is a new array. (ndarray_view is the faulty
\* alternative, .data without the copy: the stored array itself.)
ndarray_view(ref, fresh) == ref

ndarray_copy(ref, fresh) == fresh

accessor_ref(which) == IF which \in {"rate", "rate_"} THEN mon._rate ELSE mon._t
accessor_dim(which) ==
  IF which = "rate" THEN "hertz" ELSE IF which = "t" THEN "second" ELSE "1"

Read(which) ==
  /\ mon.constructed
  /\ net.slot = 0
  /\ Cardinality(snaps) < MaxSnaps
  /\ LET ref == accessor_ref(which)
         arr == ndarray_copy(ref, FreshId(heap))
     IN /\ heap' = IF arr \in DOMAIN heap THEN heap ELSE heap @@ (arr :> heap[ref])
        /\ snaps' = snaps \cup {[arr |-> arr, dim |-> accessor_dim(which), of |-> which]}
  /\ last' = Op("read")
  /\ UNCHANGED <<source, clocks, mon, net, hist>>

read_rate  == Read("rate")
read_rate_ == Read("rate_")
read_t     == Read("t")
read_t_    == Read("t_")

\* the caller writes into an array an accessor returned
Garbage == <<-1, 1>>

Mutate(s, i) ==
  /\ s \in snaps
  /\ i \in 1 .. Len(heap[s.arr])
  /\ heap[s.arr][i] # Garbage
  /\ heap' = [heap EXCEPT ![s.arr][i] = Garbage]
  /\ last' = Op("mutate")
  /\ UNCHANGED <<source, clocks, mon, snaps, net, hist>>

\* the caller lets go of an array an accessor returned
Drop(s) ==
  /\ s \in snaps
  /\ snaps' = snaps \ {s}
  /\ heap' = Collect(heap, mon, snaps')
  /\ last' = Op("drop")
  /\ UNCHANGED <<source, clocks, mon, net, hist>>

\* a monitor with the default schedule on a source of MaxUnits units, of which
\* none or all fire in a tick; its runs; and a caller who reads
InitRead == Init /\ source.n = MaxUnits

NextRead ==
  \/ \E nm \in Names : Construct(NoWhen, nm)
  \/ reinit
  \/ before_run
  \/ \E k \in {0, source.n} : SourceThreshold(1 .. k)
  \/ MonitorUpdate
  \/ ClockTick
  \/ EndRun
  \/ read_rate
  \/ read_rate_
  \/ read_t
  \/ read_t_
  \/ \E s \in snaps, i \in 1 .. MaxTicks : Mutate(s, i)
  \/ \E s \in snaps : Drop(s)

SpecRead == InitRead /\ [][NextRead]_vars

\* ---- __repr__, lines 116-119:
\* '<{classname}, recording {source}>' with the name of the class and
\* self.source.name. A string is the sequence of its pieces.
ClassName == "PopulationRateMonitor"

\* (a description that leaves the source out)
repr_format_class_only(classname, srcname) == <<"<", classname, ">">>

repr_format(classname, srcname) == <<"<", classname, ", recording ", srcname, ">">>

\* reading an attribute through the proxy raises ReferenceError once the
\* referent is gone
repr_result(m, src) ==
  IF m.source.weak /\ ~src.alive
  THEN [raised |-> "ReferenceError", value |-> <<>>]
  ELSE [raised |-> None, value |-> repr_format(ClassName, src.name)]

repr ==
  /\ mon.constructed
  /\ net.slot = 0
  /\ last' = [op |-> "repr", when |-> NoWhen, ret |-> repr_result(mon, source)]
  /\ UNCHANGED <<source, clocks, mon, heap, snaps, net, hist>>

\* the last strong reference to the source is dropped, between two runs; a
\* plain reference held by the monitor would keep the source alive
SourceDies ==
  /\ source.alive
  /\ mon.constructed
  /\ ~net.running
  /\ mon.source.weak
  /\ source' = [source EXCEPT !.alive = FALSE]
  /\ last' = Op("source_dies")
  /\ UNCHANGED <<clocks, mon, heap, snaps, net, hist>>

\* a named monitor with the default schedule on a named source of MaxUnits
\* units; its runs; a caller who asks for its description; the source's end
SourceNames == {"neurongroup", "poissongroup"}
DescribeNames == {"ratemonitor", "rates"}

InitDescribe ==
  /\ source \in {[n |-> MaxUnits, clock |-> "defaultclock", name |-> nm,
                  spikespace |-> {}, alive |-> TRUE] : nm \in SourceNames}
  /\ clocks = [c \in Clocks |-> [t |-> 0, dt |-> InitialDt[c]]]
  /\ mon = NoMonitor
  /\ heap = <<>>
  /\ snaps = {}
  /\ net = [running |-> FALSE, slot |-> 0, tick |-> 0]
  /\ hist = [n0 |-> 0, run_dt |-> 0, fired |-> <<>>, samples |-> <<>>,
             since_reinit |-> 0]
  /\ last = Op("init")

NextDescribe ==
  \/ \E nm \in DescribeNames : Construct(NoWhen, nm)
  \/ reinit
  \/ before_run
  \/ \E k \in {0, source.n} : SourceThreshold(1 .. k)
  \/ MonitorUpdate
  \/ ClockTick
  \/ EndRun
  \/ repr
  \/ SourceDies

SpecDescribe == InitDescribe /\ [][NextDescribe]_vars

\* ======================= the properties =======================
bound_rate == heap[mon.variables._rate]
bound_t    == heap[mon.variables._t]
Samples    == hist.samples
LastOf(q)  == q[Len(q)]

\* a/b = c/d and a/b <= c/d, for numbers <<a, b>> and <<c, d>> with b, d > 0
RatEq(x, y) == x[1] * y[2] = y[1] * x[2]
RatLe(x, y) == x[1] * y[2] <= y[1] * x[2]
NonDecreasing(q) == \A i, j \in 1 .. Len(q) : i <= j => RatLe(q[i], q[j])

\* C1: in every state reached by construction, run starts, ticks and
\* reset() calls, the rate series and the time series the accessors return
\* have the same length.
C1_SeriesSameLength ==
  mon.constructed =>
    /\ Len(rate.data) = Len(t.data)
    /\ Len(rate_) = Len(t_)

C1_Witness ==
  mon.constructed /\ last.op = "update" /\ Len(rate_) >= 1 /\ Len(t_) >= 1

\* C2 (as claimed): right after reset() both accessors return series of
\* length 0, and the first tick after the reset is visible through the
\* accessors as the only sample of both series.
C2_ResetThenRecord ==
  mon.constructed =>
    /\ (hist.since_reinit = 0 => Len(rate_) = 0 /\ Len(t_) = 0)
    /\ (hist.since_reinit = 1 => Len(rate_) = 1 /\ Len(t_) = 1)

\* C3 (as claimed): each scheduled tick appends exactly one sample to the
\* rate series and one to the time series the accessors read, so that a run
\* of N ticks that starts with empty series ends with series of length N.
C3_OneSamplePerTick ==
  [][last'.op = "update" =>
       /\ Len(rate_') = Len(rate_) + 1
       /\ Len(t_') = Len(t_) + 1]_vars

C6_ZeroUnitsRejected ==
  mon.constructed => (hist.n0 >= 1 /\ mon.variables._num_source_neurons >= 1)

\* C7: what an accessor returns is an array of its own, equal to the stored
\* series when it is returned: writing into it changes neither the stored
\* series nor another returned array, and no operation of the monitor or
\* the driver (tick, reset, run start) changes an array returned earlier.
C7_IndependentSnapshots ==
  [][/\ last'.op = "mutate" =>
          /\ rate_' = rate_ /\ t_' = t_
          /\ bound_rate' = bound_rate /\ bound_t' = bound_t
          /\ Cardinality({s \in snaps : heap'[s.arr] # heap[s.arr]}) = 1
     /\ last'.op # "mutate" =>
          \A s \in snaps \cap snaps' : heap'[s.arr] = heap[s.arr]
     /\ last'.op = "read" =>
          \A s \in snaps' \ snaps :
            /\ heap'[s.arr] = heap[accessor_ref(s.of)]
            /\ s.arr \notin {mon._rate, mon._t, mon.variables._rate,
                              mon.variables._t}]_vars

C7_Witness ==
  /\ last.op = "mutate"
  /\ \E s \in snaps :
       /\ Len(heap[s.arr]) >= 1
       /\ heap[s.arr] # heap[accessor_ref(s.of)]
       /\ Len(heap[accessor_ref(s.of)]) >= 1

\* C8: the recorded time series is non-decreasing, its i-th entry is the
\* time the clock reported at the i-th recorded tick, and rate and time
\* samples stay paired in the order of insertion.
C8_TimesInOrder ==
  mon.constructed =>
    /\ Len(bound_t) = Len(Samples)
    /\ Len(bound_rate) = Len(Samples)
    /\ \A i \in 1 .. Len(Samples) : bound_t[i] = Num(Samples[i].t, 1)
    /\ NonDecreasing(bound_t)
    /\ NonDecreasing(t_)
    /\ (mon._t = mon.variables._t => t_ = bound_t)

C8_Witness ==
  /\ mon.constructed
  /\ Len(t_) >= 2
  /\ ~RatLe(t_[2], t_[1])
  /\ last.op = "update"

\* C9: without a schedule override the monitor runs on the source's clock in
\* slot 'end'; a clock or slot the caller gives is kept; and a monitor in
\* slot 'end' counts at tick i the units that fired in tick i.
C9_Schedule ==
  /\ last.op = "construct" =>
       /\ mon.clock = (IF last.when.clock = None THEN source.clock
                       ELSE last.when.clock)
       /\ mon.when = (IF last.when.when = None THEN "end" ELSE last.when.when)
  /\ (mon.constructed /\ mon.when = "end") =>
       \A i \in 1 .. Len(Samples) :
         \E j \in 1 .. Len(hist.fired) :
           /\ hist.fired[j].tick = Samples[i].tick
           /\ Samples[i].k = Cardinality(hist.fired[j].fired)

C9_Witness ==
  /\ mon.constructed
  /\ mon.when = "end"
  /\ mon.clock = source.clock
  /\ Len(Samples) >= 2
  /\ Samples[1].k # Samples[2].k

C11_EmptyAfterConstruction ==
  /\ last.op = "construct" => mon.constructed
  /\ (mon.constructed /\ Len(Samples) = 0) =>
       /\ rate_ = <<>> /\ t_ = <<>>
       /\ rate.data = <<>> /\ t.data = <<>>

C11_Witness ==
  /\ last.op = "construct"
  /\ mon.constructed
  /\ source.n >= 1
  /\ Len(rate_) = 0 /\ Len(t_) = 0

\* C12 (as claimed): reset() is idempotent. Both series are empty after any
\* number of resets in a row, and a reset of a monitor that is already empty
\* changes nothing observable, including how the following ticks are
\* recorded: while every reset so far was made before the first recorded
\* tick (hist.since_reinit = Len(Samples)), the accessors return every
\* recorded tick, as they do on a monitor that was never reset.
C12_ResetIdempotent ==
  mon.constructed =>
    /\ (last.op = "reinit" => rate_ = <<>> /\ t_ = <<>>)
    /\ (hist.since_reinit = Len(Samples) =>
          /\ Len(rate_) = Len(Samples)
          /\ Len(t_) = Len(Samples))

\* C13: reset() changes the recorded samples only: the monitor's name, its
\* clock and slot (and the clock its t and dt variables refer to), its
\* reference to the source, the cached unit count and its updaters are the
\* same after the call as before, and neither the source nor a clock changes.
C13_ResetFrame ==
  [][last'.op = "reinit" =>
       /\ mon'.constructed
       /\ mon'.name = mon.name
       /\ mon'.clock = mon.clock /\ mon'.when = mon.when
       /\ mon'.variables.t = mon.variables.t
       /\ mon'.variables.dt = mon.variables.dt
       /\ mon'.source = mon.source
       /\ mon'.variables._spikespace = mon.variables._spikespace
       /\ mon'.variables._num_source_neurons = mon.variables._num_source_neurons
       /\ mon'.updaters = mon.updaters
       /\ source' = source /\ clocks' = clocks]_vars

C13_Witness ==
  /\ last.op = "reinit"
  /\ Len(Samples) >= 1
  /\ mon.variables._num_source_neurons # source.n
  /\ mon.clock # source.clock

Embeds(str, name) == \E i \in 1 .. Len(str) : str[i] = name

\* C15: once the source is gone, __repr__ (which reads the source's name)
\* raises ReferenceError and returns nothing; the monitor holds the source
\* weakly, so the source can end while the monitor exists; and the end of the
\* source and the failed call leave the series the accessors return as they
\* were.
C15_ExpiredSource ==
  [][/\ mon'.constructed => mon'.source.weak
     /\ (last'.op = "repr" /\ ~source'.alive) =>
          /\ last'.ret.raised = "ReferenceError"
          /\ last'.ret.value = <<>>
          /\ rate_' = rate_ /\ t_' = t_
     /\ last'.op = "source_dies" =>
          /\ ~source'.alive
          /\ mon'.constructed
          /\ rate_' = rate_ /\ t_' = t_
          /\ rate' = rate /\ t' = t]_vars

C15_Witness ==
  /\ last.op = "repr"
  /\ ~source.alive
  /\ last.ret.raised = "ReferenceError"
  /\ Len(rate_) >= 1 /\ Len(t_) >= 1

\* C16 (as claimed): the description embeds the monitor's own name and the
\* source's name, is the same on every call, and the call changes no state.
C16_EmbedsMonitorName ==
  [][(last'.op = "repr" /\ source'.alive) =>
       /\ last'.ret.raised = None
       /\ Embeds(last'.ret.value, mon.name)
       /\ Embeds(last'.ret.value, source.name)
       /\ (last.op = "repr" /\ source.alive) => last'.ret = last.ret
       /\ UNCHANGED <<source, clocks, mon, heap, snaps, net, hist>>]_vars

\* C16 (amended): the description embeds the name of the monitor's class
\* and the source's name, not the monitor's own name; it is the same string
\* on every call (it depends on these two names only); and the call changes
\* no state.
C16_EmbedsClassAndSourceName ==
  [][(last'.op = "repr" /\ source'.alive) =>
       /\ last'.ret.raised = None
       /\ Embeds(last'.ret.value, "PopulationRateMonitor")
       /\ Embeds(last'.ret.value, source.name)
       /\ ~Embeds(last'.ret.value, mon.name)
       /\ last'.ret.value =
            <<"<", "PopulationRateMonitor", ", recording ", source.name, ">">>
       /\ UNCHANGED <<source, clocks, mon, heap, snaps, net, hist>>]_vars

C16_Witness ==
  /\ last.op = "repr"
  /\ source.alive
  /\ last.ret.raised = None
  /\ mon.name = "rates"
  /\ source.name = "poissongroup"
  /\ Embeds(last.ret.value, "poissongroup")
  /\ Len(rate_) >= 1

\* the plain array under a quantity
Strip(q) == q.data

C18_OneUpdater ==
  [][/\ last'.op = "before_run" => Len(mon'.updaters) = 1
     /\ last'.op = "update" =>
          /\ Len(mon.updaters) = 1
          /\ bound_rate' = Append(bound_rate, LastOf(bound_rate'))
          /\ bound_t' = Append(bound_t, LastOf(bound_t'))]_vars

C18_Witness ==
  /\ last.op = "update"
  /\ Len(mon.updaters) = 1
  /\ Len(Samples) = 2
  /\ Samples[1].dt_run # Samples[2].dt_run
  /\ Len(bound_rate) = 2 /\ Len(bound_t) = 2

\* C19: recorded data accumulate across runs. The start and the end of a
\* run neither clear nor rebind the series; on a monitor whose accessors
\* read the arrays the per-tick operation writes (one that was not reset)
\* every tick extends both series by one sample and keeps the samples
\* before it, so that after runs of N1 and N2 ticks both series have
\* N1 + N2 samples, the first N1 unchanged.
C19_AccumulateAcrossRuns ==
  [][/\ last'.op \in {"before_run", "end_run"} =>
          /\ rate_' = rate_ /\ t_' = t_
          /\ mon'._rate = mon._rate /\ mon'._t = mon._t
          /\ mon'.variables = mon.variables
          /\ bound_rate' = bound_rate /\ bound_t' = bound_t
     /\ (/\ last'.op = "update"
         /\ mon._rate = mon.variables._rate
         /\ mon._t = mon.variables._t) =>
          /\ Len(rate_') = Len(rate_) + 1
          /\ Len(t_') = Len(t_) + 1
          /\ SubSeq(rate_', 1, Len(rate_)) = rate_
          /\ SubSeq(t_', 1, Len(t_)) = t_
          /\ Len(rate_') = Len(hist'.samples)]_vars

C19_Witness ==
  /\ last.op = "end_run"
  /\ mon._rate = mon.variables._rate /\ mon._t = mon.variables._t
  /\ Len(rate_) = 2 /\ Len(t_) = 2
  /\ Samples[1].dt_run # Samples[2].dt_run

====
